---- MODULE Spec2Model ----
(***************************************************************************)
(* Aira dental voice assistant: the appointment store with its slot        *)
(* availability check (backend/services/appointment_service.py and the     *)
(* booking route of backend/api/routes/appointments.py) and the per-call   *)
(* conversation state machine (backend/agents/dent_agent.py).              *)
(*                                                                         *)
(* Instants are minutes: datetime.combine(date, time) is                   *)
(* date * 24 * 60 + hour * 60 + minute, with the date an ordinal day.      *)
(* A time string "HH:MM" is the sequence of its four digits.               *)
(***************************************************************************)
EXTENDS Integers, Sequences, FiniteSets, TLC

VARIABLES
    appointments,       \* the Appointment collection: id (index) -> document
    requests,           \* booking requests in flight in the POST / route
    availability,       \* outcome of the latest direct check_availability call
    slots,              \* outcome of the latest get_available_slots call
    response,           \* answer of the latest route called with an id
    conversation_state, \* DentalAgent.conversation_state of one session
    turns,              \* process_message coroutines of that session
    turn_start,         \* observer: conversation_state when the turn started
    entities,           \* observer: what extract_entities returned to the turn
    submitted,          \* observer: the turns under way, in the order called
    failures,           \* observer: the provider calls that failed in the turn
    active_conversations, \* voice.py: session id -> the session's entry
    agents,             \* the conversation_state dict objects ever built
    session_turns,      \* the turn under way on each session's agent
    end_calls,          \* end_call requests in flight
    calls,              \* how many session ids uuid4 has handed out
    acting,             \* observer: the session whose agent acted last
    language,           \* DentalAgent.language of the session
    slot_loop           \* the while loop of a get_available_slots call under way

vars == <<appointments, requests, availability, slots, response,
          conversation_state, turns, turn_start, entities, submitted,
          failures, active_conversations, agents, session_turns, end_calls,
          calls, acting, language, slot_loop>>

storeVars == <<appointments, requests, availability, slots, response>>
agentVars ==
    <<conversation_state, turns, turn_start, entities, submitted, failures>>
sessionVars ==
    <<active_conversations, agents, session_turns, end_calls, calls, acting,
      language>>

-----------------------------------------------------------------------------
(* Settings and bounds *)

APPOINTMENT_SLOT_DURATION == 30
APPOINTMENT_BUFFER_MINUTES == 15

MaxAppointments == 2
MaxRequests == 2
MaxTurns == 2
MaxValue == 1
MaxEntityFields == 2
MaxDayAppointments == 12

Requests == 1..MaxRequests
Turns == 1..MaxTurns

-----------------------------------------------------------------------------
(* Dates and times *)

\* current_time.strftime("%H:%M"): the four digits of a time of day
strftime(hour, minute) ==
    <<hour \div 10, hour % 10, minute \div 10, minute % 10>>

\* datetime.strptime(appointment_time, "%H:%M").time()
strptime(s) == [hour |-> s[1] * 10 + s[2], minute |-> s[3] * 10 + s[4]]

\* datetime.combine(appointment_date, time)
combine(d, t) == d * 24 * 60 + t.hour * 60 + t.minute

\* Slots the booking and update requests of the model ask for
BookDates == {1}
BookTimes == {strftime(10, m) : m \in {0, 15, 30, 45}} \cup {strftime(11, 0)}
BookInstants == {combine(d, strptime(s)) : d \in BookDates, s \in BookTimes}

\* Slots check_availability is asked about directly: every minute from 09:00
\* to 11:00, on the day of the bookings and on the next one
ProbeDates == {1, 2}
ProbeTimes == {strftime(h, m) : h \in {9, 10}, m \in 0..59} \cup {strftime(11, 0)}

-----------------------------------------------------------------------------
(* The appointment store *)

AppointmentStatus == {"pending", "confirmed", "cancelled", "completed"}

NoTime == <<>>
IdleRequest ==
    [pc |-> "idle", appointment_date |-> 0, appointment_time |-> NoTime,
     status_code |-> 0]
NoCall == [called |-> FALSE]
NoResponse == [called |-> FALSE]

\* The query with its upper bound taken inclusive ("$lte" for "$lt")
find_conflicts_upper_inclusive(store, lo, hi) ==
    {i \in DOMAIN store :
        /\ store[i].appointment_date >= lo
        /\ store[i].appointment_date <= hi
        /\ store[i].status \in {"pending", "confirmed"}}

\* The query without its status filter
find_conflicts_any_status(store, lo, hi) ==
    {i \in DOMAIN store :
        /\ store[i].appointment_date >= lo
        /\ store[i].appointment_date < hi}

\* Appointment.find({"appointment_date": {"$gte": lo, "$lt": hi},
\*                   "status": {"$in": [PENDING, CONFIRMED]}}).to_list()
find_conflicts(store, lo, hi) ==
    {i \in DOMAIN store :
        /\ store[i].appointment_date >= lo
        /\ store[i].appointment_date < hi
        /\ store[i].status \in {"pending", "confirmed"}}

\* AppointmentService.check_availability: the value it hands to its caller.
\* raised tells whether the call ended with an exception; the except clause
\* of the method answers a failed query with False.
check_availability(store, d, s, storage_ok) ==
    IF ~storage_ok
    THEN [raised |-> FALSE, value |-> FALSE]
    ELSE LET desired_datetime == combine(d, strptime(s))
             buffer_start == desired_datetime - APPOINTMENT_BUFFER_MINUTES
             buffer_end == desired_datetime
                 + (APPOINTMENT_SLOT_DURATION + APPOINTMENT_BUFFER_MINUTES)
             conflicts == find_conflicts(store, buffer_start, buffer_end)
         IN  [raised |-> FALSE, value |-> Cardinality(conflicts) = 0]

\* AppointmentService.get_appointment: the document, or None for an unknown
\* id and for a failed lookup alike
get_appointment(store, id, storage_ok) ==
    IF storage_ok /\ id \in DOMAIN store THEN id ELSE 0

InFlight == {r \in Requests : requests[r].pc = "create_appointment"}
Quiescent ==
    /\ \A r \in Requests : requests[r].pc = "idle"
    /\ ~availability.called
    /\ ~response.called

\* POST / going on to create_appointment whatever check_availability answers
route_create_unchecked(r, d, s, storage_ok) ==
    /\ requests[r].pc = "idle"
    /\ Len(appointments) + Cardinality(InFlight) < MaxAppointments
    /\ requests' = [requests EXCEPT ![r] =
           [pc |-> "create_appointment", appointment_date |-> d,
            appointment_time |-> s, status_code |-> 0]]
    /\ UNCHANGED <<appointments, availability>>
    /\ UNCHANGED <<slots, response, agentVars, sessionVars, slot_loop>>

\* POST /: check_availability answers; a False raises HTTPException(400),
\* a True goes on to appointment_service.create_appointment
route_check_availability(r, d, s, storage_ok) ==
    /\ requests[r].pc = "idle"
    /\ Len(appointments) + Cardinality(InFlight) < MaxAppointments
    /\ LET is_available == check_availability(appointments, d, s, storage_ok)
       IN  requests' = [requests EXCEPT ![r] =
               IF is_available.raised
               THEN [pc |-> "done", appointment_date |-> d,
                     appointment_time |-> s, status_code |-> 500]
               ELSE IF ~is_available.value
               THEN [pc |-> "done", appointment_date |-> d,
                     appointment_time |-> s, status_code |-> 400]
               ELSE [pc |-> "create_appointment", appointment_date |-> d,
                     appointment_time |-> s, status_code |-> 0]]
    /\ UNCHANGED <<appointments, availability>>
    /\ UNCHANGED <<slots, response, agentVars, sessionVars, slot_loop>>

\* AppointmentService.create_appointment: the insert returns, or fails
create_appointment(r, storage_ok) ==
    /\ requests[r].pc = "create_appointment"
    /\ LET appointment_datetime ==
               combine(requests[r].appointment_date,
                       strptime(requests[r].appointment_time))
       IN  IF storage_ok
           THEN /\ appointments' = Append(appointments,
                       [appointment_date |-> appointment_datetime,
                        status |-> "pending"])
                /\ requests' = [requests EXCEPT ![r].pc = "done",
                                                ![r].status_code = 201]
           ELSE /\ appointments' = appointments
                /\ requests' = [requests EXCEPT ![r].pc = "done",
                                                ![r].status_code = 500]
    /\ UNCHANGED availability
    /\ UNCHANGED <<slots, response, agentVars, sessionVars, slot_loop>>

\* The response of POST / is delivered
route_return(r) ==
    /\ requests[r].pc = "done"
    /\ requests' = [requests EXCEPT ![r] = IdleRequest]
    /\ UNCHANGED <<appointments, availability>>
    /\ UNCHANGED <<slots, response, agentVars, sessionVars, slot_loop>>

\* What the routes PUT /{id}, DELETE /{id} and POST /{id}/confirm answer:
\* 404 when the service returned None, 500 when it raised, 200 otherwise
route_status_code(id, get_ok, save_ok) ==
    IF get_appointment(appointments, id, get_ok) = 0 THEN 404
    ELSE IF ~save_ok THEN 500
    ELSE 200

\* AppointmentUpdate.model_dump(exclude_unset=True): the fields a PUT sets
UpdateDicts ==
    {<<>>}
    \cup {[f \in {"appointment_date"} |-> t] : t \in BookInstants}
    \cup {[f \in {"status"} |-> st] : st \in AppointmentStatus}
    \cup {[appointment_date |-> t, status |-> st] :
             t \in BookInstants, st \in AppointmentStatus}

\* for field, value in update_dict.items(): setattr(appointment, field, value)
apply_update(doc, update_dict) ==
    [f \in DOMAIN doc |->
        IF f \in DOMAIN update_dict THEN update_dict[f] ELSE doc[f]]

\* AppointmentService.update_appointment
update_appointment(id, update_dict, get_ok, save_ok) ==
    /\ LET appointment == get_appointment(appointments, id, get_ok)
       IN  IF appointment = 0 \/ ~save_ok
           THEN appointments' = appointments
           ELSE appointments' = [appointments EXCEPT
                    ![id] = apply_update(appointments[id], update_dict)]
    /\ response' = [called |-> TRUE, route |-> "update_appointment",
                    appointment_id |-> id,
                    status_code |-> route_status_code(id, get_ok, save_ok)]
    /\ UNCHANGED <<requests, availability>>
    /\ UNCHANGED <<slots, agentVars, sessionVars, slot_loop>>

\* AppointmentService.cancel_appointment
cancel_appointment(id, get_ok, save_ok) ==
    /\ LET appointment == get_appointment(appointments, id, get_ok)
       IN  IF appointment = 0 \/ ~save_ok
           THEN appointments' = appointments
           ELSE appointments' = [appointments EXCEPT
                    ![id].status = "cancelled"]
    /\ response' = [called |-> TRUE, route |-> "cancel_appointment",
                    appointment_id |-> id,
                    status_code |-> route_status_code(id, get_ok, save_ok)]
    /\ UNCHANGED <<requests, availability>>
    /\ UNCHANGED <<slots, agentVars, sessionVars, slot_loop>>

\* AppointmentService.confirm_appointment
confirm_appointment(id, get_ok, save_ok) ==
    /\ LET appointment == get_appointment(appointments, id, get_ok)
       IN  IF appointment = 0 \/ ~save_ok
           THEN appointments' = appointments
           ELSE appointments' = [appointments EXCEPT
                    ![id].status = "confirmed"]
    /\ response' = [called |-> TRUE, route |-> "confirm_appointment",
                    appointment_id |-> id,
                    status_code |-> route_status_code(id, get_ok, save_ok)]
    /\ UNCHANGED <<requests, availability>>
    /\ UNCHANGED <<slots, agentVars, sessionVars, slot_loop>>

\* GET /{id}: get_appointment answers; None raises HTTPException(404)
route_get_appointment(id, get_ok) ==
    /\ response' = [called |-> TRUE, route |-> "get_appointment",
                    appointment_id |-> id,
                    status_code |-> route_status_code(id, get_ok, TRUE)]
    /\ UNCHANGED <<appointments, requests, availability>>
    /\ UNCHANGED <<slots, agentVars, sessionVars, slot_loop>>

\* The answer of a route called with an id is delivered
route_respond ==
    /\ response.called
    /\ response' = NoResponse
    /\ UNCHANGED <<appointments, requests, availability>>
    /\ UNCHANGED <<slots, agentVars, sessionVars, slot_loop>>

\* A caller asks AppointmentService.check_availability directly and keeps
\* what it was told
call_check_availability(d, s, storage_ok) ==
    /\ availability' =
           [called |-> TRUE, appointment_date |-> d, appointment_time |-> s,
            storage_ok |-> storage_ok,
            result |-> check_availability(appointments, d, s, storage_ok)]
    /\ UNCHANGED <<appointments, requests>>
    /\ UNCHANGED <<slots, response, agentVars, sessionVars, slot_loop>>

\* The caller is done with the answer
return_check_availability ==
    /\ availability.called
    /\ availability' = NoCall
    /\ UNCHANGED <<appointments, requests>>
    /\ UNCHANGED <<slots, response, agentVars, sessionVars, slot_loop>>

\* Working hours of get_available_slots (9 AM to 8 PM)
start_hour == 9
end_hour == 20

NoSlots == [called |-> FALSE]

\* slot_duration as a caller passes it: left out (None), or a number of minutes
SlotDurations == {0 - 1, 60}

\* The slot times whose availability query may fail during a call
GridTimes == {strftime(h, m) : h \in start_hour..(end_hour - 1), m \in {0, 30}}
FailingSets == {{}} \cup {{s} : s \in GridTimes} \cup {GridTimes}

\* The while loop of get_available_slots from current_time on: each slot time
\* is asked of check_availability and appended when the answer is True
RECURSIVE all_slots(_, _, _, _, _, _)
all_slots(store, target_date, slot_duration, failing, current_time, end_time) ==
    IF ~(current_time < end_time)
    THEN <<>>
    ELSE LET slot_time == strftime((current_time % (24 * 60)) \div 60,
                                   current_time % 60)
             is_available == check_availability(store, target_date, slot_time,
                                                slot_time \notin failing)
             later == all_slots(store, target_date, slot_duration, failing,
                                current_time + slot_duration, end_time)
         IN  IF is_available.value THEN <<slot_time>> \o later ELSE later

\* get_available_slots with the loop running through the closing hour
\* (`current_time <= end_time`)
get_available_slots_through_closing(store, target_date, slot_duration, failing) ==
    LET duration == IF slot_duration = 0 - 1
                    THEN APPOINTMENT_SLOT_DURATION
                    ELSE slot_duration
        current_time == combine(target_date, [hour |-> start_hour, minute |-> 0])
        end_time == combine(target_date, [hour |-> end_hour, minute |-> 0])
    IN  [raised |-> FALSE,
         value |-> all_slots(store, target_date, duration, failing,
                             current_time, end_time + 1)]

\* AppointmentService.get_available_slots: the value it hands to its caller.
\* check_availability never raises, so the loop always runs to its end.
get_available_slots(store, target_date, slot_duration, failing) ==
    LET duration == IF slot_duration = 0 - 1
                    THEN APPOINTMENT_SLOT_DURATION
                    ELSE slot_duration
        current_time == combine(target_date, [hour |-> start_hour, minute |-> 0])
        end_time == combine(target_date, [hour |-> end_hour, minute |-> 0])
    IN  [raised |-> FALSE,
         value |-> all_slots(store, target_date, duration, failing,
                             current_time, end_time)]

\* A caller asks AppointmentService.get_available_slots and keeps what it was
\* told; the queries of the slot times in failing fail
call_get_available_slots(d, slot_duration, failing) ==
    /\ slots' =
           [called |-> TRUE, target_date |-> d, slot_duration |-> slot_duration,
            failing |-> failing,
            result |-> get_available_slots(appointments, d, slot_duration,
                                           failing)]
    /\ UNCHANGED <<appointments, requests, availability, response>>
    /\ UNCHANGED <<agentVars, sessionVars, slot_loop>>

\* The caller is done with the slots
return_get_available_slots ==
    /\ slots.called
    /\ slots' = NoSlots
    /\ UNCHANGED <<appointments, requests, availability, response>>
    /\ UNCHANGED <<agentVars, sessionVars, slot_loop>>

-----------------------------------------------------------------------------
(* The while loop of get_available_slots, iteration by iteration *)

MaxChecks == 661

\* datetime.min, the first minute of the day of ordinal 1: an addition that
\* would give an earlier instant raises OverflowError
MinInstant == combine(1, [hour |-> 0, minute |-> 0])

\* Integer slot_duration arguments: none of them is None, so none is replaced
\* by the configured default
LoopDurations == {0 - 60, 0 - 7, 0, 7, 30, 45, 60, 661}

IdleLoop ==
    [pc |-> "idle", target_date |-> 0, slot_duration |-> 0, current_time |-> 0,
     end_time |-> 0, checks |-> 0, found |-> 0, odd |-> FALSE]

\* A count of loop iterations, which stops counting at MaxChecks; whether the
\* iterations made are odd in number is kept beside it, so that an iteration
\* past MaxChecks is still a step
Counted(n) == IF n < MaxChecks THEN n + 1 ELSE MaxChecks

\* get_available_slots is called with an integer slot_duration: current_time
\* and end_time are set and the loop is entered
get_available_slots_call(d, slot_duration) ==
    /\ slot_loop.pc = "idle"
    /\ slot_loop' =
           [pc |-> "loop", target_date |-> d, slot_duration |-> slot_duration,
            current_time |-> combine(d, [hour |-> start_hour, minute |-> 0]),
            end_time |-> combine(d, [hour |-> end_hour, minute |-> 0]),
            checks |-> 0, found |-> 0, odd |-> FALSE]
    /\ UNCHANGED <<storeVars, agentVars, sessionVars>>

\* The loop test and one iteration: the slot time is asked of
\* check_availability, appended when free, and current_time moved on by
\* slot_duration; the loop is left when the test fails, and through the except
\* clause, which returns [], when the addition raises OverflowError. The
\* storage answers every query: a failing query costs the slot, not the check
get_available_slots_iteration ==
    /\ slot_loop.pc = "loop"
    /\ IF ~(slot_loop.current_time < slot_loop.end_time)
       THEN slot_loop' = [slot_loop EXCEPT !.pc = "done"]
       ELSE LET slot_time ==
                    strftime((slot_loop.current_time % (24 * 60)) \div 60,
                             slot_loop.current_time % 60)
                is_available ==
                    check_availability(appointments, slot_loop.target_date,
                                       slot_time, TRUE)
                moved == slot_loop.current_time + slot_loop.slot_duration
            IN  slot_loop' = [slot_loop EXCEPT
                    !.checks = Counted(@),
                    !.odd = ~@,
                    !.found = IF moved < MinInstant THEN 0
                              ELSE IF is_available.value THEN Counted(@)
                              ELSE @,
                    !.current_time = IF moved < MinInstant THEN @ ELSE moved,
                    !.pc = IF moved < MinInstant THEN "done" ELSE "loop"]
    /\ UNCHANGED <<storeVars, agentVars, sessionVars>>

\* The caller has the list of get_available_slots
get_available_slots_return ==
    /\ slot_loop.pc = "done"
    /\ slot_loop' = IdleLoop
    /\ UNCHANGED <<storeVars, agentVars, sessionVars>>

-----------------------------------------------------------------------------
(* The conversation state machine of one session: DentalAgent *)

\* A value of an entity or of a collected field: None (-1), the empty string
\* (0), or the n-th non-empty string (n >= 1). Truthy is Python's `if v`.
None == 0 - 1
EntityValues == None..MaxValue
Truthy(v) == v > 0

required_fields ==
    <<"patient_name", "phone", "appointment_date", "appointment_time">>
Fields == {required_fields[i] : i \in DOMAIN required_fields}

\* What json.loads hands back when the reply is a JSON object: some of the
\* fields, each with any value
EntityDicts ==
    UNION {[K -> EntityValues] :
              K \in {S \in SUBSET Fields : Cardinality(S) <= MaxEntityFields}}

\* The entities the extraction prompt asks for, and the replies that hold
\* one of those that are no required field
ExtractedFields == Fields \cup {"email", "reason"}
OptionalEntityDicts ==
    UNION {[K -> EntityValues] :
              K \in {S \in SUBSET ExtractedFields :
                        /\ Cardinality(S) <= MaxEntityFields
                        /\ S \cap {"email", "reason"} # {}}}

\* Replies of the provider to the intent prompt
IntentReplies == {"book_appointment"}

\* DentalAgent.__init__ and reset_conversation build this dict
NewConversation == [stage |-> "greeting", collected_data |-> <<>>]

NoResult == [intent |-> "", stage |-> "", response |-> ""]
IdleTurn ==
    [pc |-> "idle", intent |-> "", missing_fields |-> <<>>, directive |-> <<>>,
     result |-> NoResult]
NoSnapshot == <<>>
NoEntities == <<>>

\* The language codes with templates, and the codes a session can have: those
\* and one that is not supported
TemplateLanguages == {"en", "ml", "hi", "ta"}
Languages == TemplateLanguages \cup {"fr"}

\* The template tables of LanguageService: ASK_NAME, ASK_PHONE, ASK_DATE,
\* ASK_TIME and CLOSING, each with a text per language; a text is modelled by
\* its table and language, and is not the empty string
templates ==
    [name \in {"ask_name", "ask_phone", "ask_date", "ask_time", "closing"} |->
        [l \in TemplateLanguages |-> <<name, l>>]]

\* LanguageService.get_template:
\*     template_dict = templates.get(template_name, {})
\*     message = template_dict.get(language, template_dict.get("en", ""))
get_template(template_name, lang) ==
    LET template_dict == IF template_name \in DOMAIN templates
                         THEN templates[template_name] ELSE <<>>
    IN  IF lang \in DOMAIN template_dict THEN template_dict[lang]
        ELSE IF "en" \in DOMAIN template_dict THEN template_dict["en"]
        ELSE ""

\* The text the provider generates for a turn
ResponseText == "response_text"

\* LLMService.detect_intent: the reply, or "other" when the provider failed
detect_intent(reply, provider_ok) == IF provider_ok THEN reply ELSE "other"

\* LLMService.extract_entities: the parsed reply, or {} when the provider
\* failed or the reply was no JSON
extract_entities(reply, provider_ok) == IF provider_ok THEN reply ELSE <<>>

\* The merge filtering on `v is not None` instead of `v`
update_collected_data_not_none(collected, ents) ==
    LET kept == {k \in DOMAIN ents : ents[k] # None}
    IN  [k \in DOMAIN collected \cup kept |->
            IF k \in kept THEN ents[k] ELSE collected[k]]

\* collected_data.update({k: v for k, v in entities.items() if v})
update_collected_data(collected, ents) ==
    LET kept == {k \in DOMAIN ents : Truthy(ents[k])}
    IN  [k \in DOMAIN collected \cup kept |->
            IF k \in kept THEN ents[k] ELSE collected[k]]

\* for field in required_fields:
\*     if field not in collected or not collected[field]: append
IsMissing(collected, field) ==
    field \notin DOMAIN collected \/ ~Truthy(collected[field])
missing_fields_of(collected) ==
    SelectSeq(required_fields, LAMBDA field : IsMissing(collected, field))

\* A directive asking for the last of the missing fields
generation_directive_last(missing_fields) ==
    IF missing_fields # <<>>
    THEN <<"Ask for the next missing field", missing_fields[Len(missing_fields)]>>
    ELSE <<"All information collected. Confirm the appointment details.">>

\* The last line of the context _generate_contextual_response adds to the
\* system prompt: its wording and, when it asks, the field it names
\*     if missing_fields: "Ask for the next missing field: {missing_fields[0]}"
\*     else: "All information collected. Confirm the appointment details."
generation_directive(missing_fields) ==
    IF missing_fields # <<>>
    THEN <<"Ask for the next missing field", missing_fields[1]>>
    ELSE <<"All information collected. Confirm the appointment details.">>

\* The stage update with the test `stage == "greeting"` left out
update_stage_any_stage(stage, missing_fields) ==
    IF missing_fields = <<>> /\ stage # "confirming" THEN "confirming"
    ELSE IF missing_fields # <<>> THEN "collecting_info"
    ELSE stage

\* The stage update without its elif branch
update_stage_only_confirming(stage, missing_fields) ==
    IF missing_fields = <<>> /\ stage # "confirming" THEN "confirming"
    ELSE stage

\* The stage _generate_contextual_response leaves after its provider call
update_stage(stage, missing_fields) ==
    IF missing_fields = <<>> /\ stage # "confirming" THEN "confirming"
    ELSE IF missing_fields # <<>> /\ stage = "greeting" THEN "collecting_info"
    ELSE stage

\* process_message is called: it awaits groq_service.detect_intent
process_message(t) ==
    /\ turns[t].pc = "idle"
    /\ turns' = [turns EXCEPT ![t].pc = "detect_intent"]
    /\ UNCHANGED conversation_state
    /\ UNCHANGED <<storeVars, sessionVars, slot_loop>>

\* detect_intent answers; the turn awaits groq_service.extract_entities
detect_intent_returns(t, reply, provider_ok) ==
    /\ turns[t].pc = "detect_intent"
    /\ turns' = [turns EXCEPT ![t].pc = "extract_entities",
                              ![t].intent = detect_intent(reply, provider_ok)]
    /\ UNCHANGED conversation_state
    /\ UNCHANGED <<storeVars, sessionVars, slot_loop>>

\* extract_entities answers with a mapping: it is merged into the collected
\* data, the missing fields are computed and the turn awaits
\* groq_service.generate_response
extract_entities_returns(t, reply, provider_ok) ==
    /\ turns[t].pc = "extract_entities"
    /\ LET ents == extract_entities(reply, provider_ok)
           collected == update_collected_data(
                            conversation_state.collected_data, ents)
       IN  /\ conversation_state' =
                  [conversation_state EXCEPT !.collected_data = collected]
           /\ turns' = [turns EXCEPT
                  ![t].pc = "generate_response",
                  ![t].missing_fields = missing_fields_of(collected),
                  ![t].directive =
                      generation_directive(missing_fields_of(collected))]
    /\ UNCHANGED <<storeVars, sessionVars, slot_loop>>

\* extract_entities answers with JSON that is no object (a list, a string, a
\* number): entities.items() raises and the except clause builds the result
extract_entities_malformed(t) ==
    /\ turns[t].pc = "extract_entities"
    /\ turns' = [turns EXCEPT
           ![t].pc = "done",
           ![t].result = [intent |-> "error",
                          stage |-> conversation_state.stage,
                          response |-> get_template("error", language)]]
    /\ UNCHANGED conversation_state
    /\ UNCHANGED <<storeVars, sessionVars, slot_loop>>

\* generate_response answers, or raises: the stage is updated and the result
\* built, or the except clause builds the result
generate_response_returns(t, provider_ok) ==
    /\ turns[t].pc = "generate_response"
    /\ IF provider_ok
       THEN LET stage == update_stage(conversation_state.stage,
                                      turns[t].missing_fields)
            IN  /\ conversation_state' =
                       [conversation_state EXCEPT !.stage = stage]
                /\ turns' = [turns EXCEPT
                       ![t].pc = "done",
                       ![t].result = [intent |-> turns[t].intent,
                                      stage |-> stage,
                                      response |-> ResponseText]]
       ELSE /\ conversation_state' = conversation_state
            /\ turns' = [turns EXCEPT
                   ![t].pc = "done",
                   ![t].result = [intent |-> "error",
                                  stage |-> conversation_state.stage,
                                  response |-> get_template("error", language)]]
    /\ UNCHANGED <<storeVars, sessionVars, slot_loop>>

\* The caller gives up on the turn after agent_response_timeout seconds and
\* cancels it at the provider call it awaits: process_message has no handler
\* for the cancellation (CancelledError is no Exception) and undoes nothing
process_message_cancelled(t) ==
    /\ turns[t].pc \in {"detect_intent", "extract_entities", "generate_response"}
    /\ turns' = [turns EXCEPT
           ![t].pc = "done",
           ![t].result = [intent |-> "timeout",
                          stage |-> conversation_state.stage,
                          response |-> ""]]
    /\ UNCHANGED conversation_state
    /\ UNCHANGED <<storeVars, sessionVars, slot_loop>>

\* The caller has the result of process_message
process_message_return(t) ==
    /\ turns[t].pc = "done"
    /\ turns' = [turns EXCEPT ![t] = IdleTurn]
    /\ UNCHANGED conversation_state
    /\ UNCHANGED <<storeVars, sessionVars, slot_loop>>

\* reset_conversation putting the stage back and keeping the collected data
reset_conversation_keeping_data ==
    /\ conversation_state' = [conversation_state EXCEPT !.stage = "greeting"]
    /\ UNCHANGED turns
    /\ UNCHANGED <<storeVars, sessionVars, slot_loop>>

\* DentalAgent.reset_conversation
reset_conversation ==
    /\ conversation_state' = NewConversation
    /\ UNCHANGED turns
    /\ UNCHANGED <<storeVars, sessionVars, slot_loop>>

\* DentalAgent.is_appointment_ready
is_appointment_ready ==
    \A i \in DOMAIN required_fields :
        /\ required_fields[i] \in DOMAIN conversation_state.collected_data
        /\ Truthy(conversation_state.collected_data[required_fields[i]])

\* The order of the calls with turn t taken out
Remove(order, t) == SelectSeq(order, LAMBDA u : u # t)

NoTurnUnderWay == \A t \in Turns : turns[t].pc = "idle"

-----------------------------------------------------------------------------
(* The sessions of the voice routes: active_conversations and their agents *)

MaxSessions == 2
MaxEndCalls == 2
SessionIds == 1..MaxSessions
EndCalls == 1..MaxEndCalls

NoSession == 0
IdleSessionTurn == [pc |-> "idle", agent |-> 0, missing_fields |-> <<>>]
IdleEndCall ==
    [pc |-> "idle", session_id |-> NoSession, status_code |-> 0,
     raised |-> FALSE]

\* The ids an end_call request can name: those uuid4 has handed out so far,
\* and one it never hands out
UnknownSession == MaxSessions + 1
KnownSessions == {session_id \in SessionIds : session_id <= calls}

\* An agent factory handing every session the dict object built first
create_dental_agent_shared(heap) == 1

\* create_dental_agent: DentalAgent(language), whose __init__ builds a new
\* conversation_state dict; the result is the index of that object
create_dental_agent(heap) == Len(heap) + 1

\* POST /incoming-call: uuid4 hands out a session id; when the room, the
\* conversation record and the patient record are there, the agent is built
\* and the session registered; a failure before that answers 500
handle_incoming_call(ok) ==
    /\ calls < MaxSessions
    /\ calls' = calls + 1
    /\ IF ok
       THEN LET session_id == calls + 1
                agent == create_dental_agent(agents)
            IN  /\ agents' = IF agent > Len(agents)
                             THEN Append(agents, NewConversation)
                             ELSE agents
                /\ active_conversations' =
                       [s \in DOMAIN active_conversations \cup {session_id} |->
                           IF s = session_id THEN [agent |-> agent]
                           ELSE active_conversations[s]]
       ELSE UNCHANGED <<agents, active_conversations>>
    /\ acting' = NoSession
    /\ UNCHANGED <<session_turns, end_calls>>
    /\ UNCHANGED <<storeVars, agentVars, slot_loop, language>>

\* process_message on the agent of a session, up to its await of
\* generate_response: the entities are merged into the agent's collected data
\* and the missing fields computed
agent_process_message(session_id, reply, provider_ok) ==
    /\ session_id \in DOMAIN active_conversations
    /\ session_turns[session_id].pc = "idle"
    /\ LET agent == active_conversations[session_id].agent
           collected == update_collected_data(
                            agents[agent].collected_data,
                            extract_entities(reply, provider_ok))
       IN  /\ agents' = [agents EXCEPT ![agent].collected_data = collected]
           /\ session_turns' = [session_turns EXCEPT ![session_id] =
                  [pc |-> "generate_response", agent |-> agent,
                   missing_fields |-> missing_fields_of(collected)]]
    /\ acting' = session_id
    /\ UNCHANGED <<active_conversations, end_calls, calls>>
    /\ UNCHANGED <<storeVars, agentVars, slot_loop, language>>

\* generate_response answers the turn of a session, or raises
agent_generate_response_returns(session_id, provider_ok) ==
    /\ session_turns[session_id].pc = "generate_response"
    /\ LET agent == session_turns[session_id].agent
       IN  agents' = [agents EXCEPT ![agent].stage =
               IF provider_ok
               THEN update_stage(@, session_turns[session_id].missing_fields)
               ELSE @]
    /\ session_turns' = [session_turns EXCEPT ![session_id] = IdleSessionTurn]
    /\ acting' = session_id
    /\ UNCHANGED <<active_conversations, end_calls, calls>>
    /\ UNCHANGED <<storeVars, agentVars, slot_loop, language>>

\* reset_conversation on the agent of a session
agent_reset_conversation(session_id) ==
    /\ session_id \in DOMAIN active_conversations
    /\ agents' = [agents EXCEPT
           ![active_conversations[session_id].agent] = NewConversation]
    /\ acting' = session_id
    /\ UNCHANGED <<active_conversations, session_turns, end_calls, calls>>
    /\ UNCHANGED <<storeVars, agentVars, slot_loop, language>>

\* del active_conversations[session_id] and the answer of end_call: a
\* KeyError is caught by the except clause, which answers 500
del_active_conversation(e) ==
    LET session_id == end_calls[e].session_id
    IN  IF session_id \in DOMAIN active_conversations
        THEN /\ active_conversations' =
                    [s \in DOMAIN active_conversations \ {session_id} |->
                        active_conversations[s]]
             /\ end_calls' = [end_calls EXCEPT ![e].pc = "done",
                                               ![e].status_code = 200]
        ELSE /\ UNCHANGED active_conversations
             /\ end_calls' = [end_calls EXCEPT ![e].pc = "done",
                                               ![e].status_code = 500]

\* POST /end-call/{session_id}: an id that is not active is answered at once,
\* an active one awaits conversation_service.get_conversation_by_session
end_call(e, session_id) ==
    /\ end_calls[e].pc = "idle"
    /\ end_calls' = [end_calls EXCEPT ![e] =
           IF session_id \in DOMAIN active_conversations
           THEN [pc |-> "get_conversation_by_session",
                 session_id |-> session_id, status_code |-> 0,
                 raised |-> FALSE]
           ELSE [pc |-> "done", session_id |-> session_id,
                 status_code |-> 200, raised |-> FALSE]]
    /\ acting' = NoSession
    /\ UNCHANGED <<active_conversations, agents, session_turns, calls>>
    /\ UNCHANGED <<storeVars, agentVars, slot_loop, language>>

\* get_conversation_by_session answers: with the record, and end_call awaits
\* end_conversation; or with None (no record, or its own failure, which it
\* swallows), and end_call goes on to the del
get_conversation_by_session_returns(e, found) ==
    /\ end_calls[e].pc = "get_conversation_by_session"
    /\ IF found
       THEN /\ end_calls' = [end_calls EXCEPT ![e].pc = "end_conversation"]
            /\ UNCHANGED active_conversations
       ELSE del_active_conversation(e)
    /\ acting' = NoSession
    /\ UNCHANGED <<agents, session_turns, calls>>
    /\ UNCHANGED <<storeVars, agentVars, slot_loop, language>>

\* end_conversation answers, and end_call awaits livekit_handler.delete_room;
\* or it raises, and the except clause answers 500
end_conversation_returns(e, ok) ==
    /\ end_calls[e].pc = "end_conversation"
    /\ end_calls' = [end_calls EXCEPT
           ![e].pc = IF ok THEN "delete_room" ELSE "done",
           ![e].status_code = IF ok THEN 0 ELSE 500,
           ![e].raised = ~ok]
    /\ acting' = NoSession
    /\ UNCHANGED <<active_conversations, agents, session_turns, calls>>
    /\ UNCHANGED <<storeVars, agentVars, slot_loop, language>>

\* delete_room answers (it swallows its own failures): the del and the answer
delete_room_returns(e) ==
    /\ end_calls[e].pc = "delete_room"
    /\ del_active_conversation(e)
    /\ acting' = NoSession
    /\ UNCHANGED <<agents, session_turns, calls>>
    /\ UNCHANGED <<storeVars, agentVars, slot_loop, language>>

\* The caller has the answer of end_call
end_call_respond(e) ==
    /\ end_calls[e].pc = "done"
    /\ end_calls' = [end_calls EXCEPT ![e] = IdleEndCall]
    /\ acting' = NoSession
    /\ UNCHANGED <<active_conversations, agents, session_turns, calls>>
    /\ UNCHANGED <<storeVars, agentVars, slot_loop, language>>

-----------------------------------------------------------------------------
(* Specifications *)

InitStore ==
    /\ slot_loop = IdleLoop
    /\ appointments = <<>>
    /\ requests = [r \in Requests |-> IdleRequest]
    /\ availability = NoCall
    /\ slots = NoSlots
    /\ response = NoResponse

InitAgent ==
    /\ language = "en"
    /\ conversation_state = NewConversation
    /\ turns = [t \in Turns |-> IdleTurn]
    /\ turn_start = NoSnapshot
    /\ entities = NoEntities
    /\ submitted = <<>>
    /\ failures = {}

InitSessions ==
    /\ active_conversations = <<>>
    /\ agents = <<>>
    /\ session_turns = [s \in SessionIds |-> IdleSessionTurn]
    /\ end_calls = [e \in EndCalls |-> IdleEndCall]
    /\ calls = 0
    /\ acting = NoSession

Init == InitStore /\ InitAgent /\ InitSessions

AppointmentIds == 1..MaxAppointments

\* The booking route alone, its requests overlapping freely
NextBooking ==
    \/ \E r \in Requests, d \in BookDates, s \in BookTimes, ok \in BOOLEAN :
          route_check_availability(r, d, s, ok)
    \/ \E r \in Requests, ok \in BOOLEAN : create_appointment(r, ok)
    \/ \E r \in Requests : route_return(r)

SpecBooking == Init /\ [][NextBooking]_vars

\* Booking requests and service calls overlapping freely
NextStore ==
    \/ NextBooking
    \/ \E id \in AppointmentIds, u \in UpdateDicts,
          g \in BOOLEAN, sv \in BOOLEAN : update_appointment(id, u, g, sv)
    \/ \E id \in AppointmentIds, g \in BOOLEAN, sv \in BOOLEAN :
          cancel_appointment(id, g, sv)
    \/ \E id \in AppointmentIds, g \in BOOLEAN, sv \in BOOLEAN :
          confirm_appointment(id, g, sv)
    \/ \E id \in AppointmentIds, g \in BOOLEAN : route_get_appointment(id, g)
    \/ route_respond

SpecStore == Init /\ [][NextStore]_vars

\* One operation at a time: a request or a service call starts only when no
\* other one is under way
NextStoreSeq ==
    \/ \E r \in Requests, d \in BookDates, s \in BookTimes, ok \in BOOLEAN :
          Quiescent /\ route_check_availability(r, d, s, ok)
    \/ \E r \in Requests, ok \in BOOLEAN : create_appointment(r, ok)
    \/ \E r \in Requests : route_return(r)
    \/ \E id \in AppointmentIds, u \in UpdateDicts,
          g \in BOOLEAN, sv \in BOOLEAN :
          Quiescent /\ update_appointment(id, u, g, sv)
    \/ \E id \in AppointmentIds, g \in BOOLEAN, sv \in BOOLEAN :
          Quiescent /\ cancel_appointment(id, g, sv)
    \/ \E id \in AppointmentIds, g \in BOOLEAN, sv \in BOOLEAN :
          Quiescent /\ confirm_appointment(id, g, sv)
    \/ \E d \in ProbeDates, s \in ProbeTimes, ok \in BOOLEAN :
          Quiescent /\ call_check_availability(d, s, ok)
    \/ return_check_availability
    \/ \E id \in AppointmentIds, g \in BOOLEAN :
          Quiescent /\ route_get_appointment(id, g)
    \/ route_respond

SpecStoreSeq == Init /\ [][NextStoreSeq]_vars

\* A day booked hour by hour from the opening hour on: what n bookings through
\* POST /, one after the other, at 09:00, 10:00, ... leave in the store
DayStores ==
    {[i \in 1..n |->
         [appointment_date |->
              combine(1, [hour |-> start_hour + i - 1, minute |-> 0]),
          status |-> "pending"]] : n \in 0..MaxDayAppointments}

InitSlots ==
    /\ slot_loop = IdleLoop
    /\ appointments \in DayStores
    /\ requests = [r \in Requests |-> IdleRequest]
    /\ availability = NoCall
    /\ slots = NoSlots
    /\ response = NoResponse
    /\ InitAgent
    /\ InitSessions

\* get_available_slots asked of such a day, with confirmations and
\* cancellations between the calls
NextSlots ==
    \/ \E id \in AppointmentIds, g \in BOOLEAN, sv \in BOOLEAN :
          ~slots.called /\ ~response.called /\ cancel_appointment(id, g, sv)
    \/ \E id \in AppointmentIds, g \in BOOLEAN, sv \in BOOLEAN :
          ~slots.called /\ ~response.called /\ confirm_appointment(id, g, sv)
    \/ \E d \in ProbeDates, sd \in SlotDurations, failing \in FailingSets :
          ~slots.called /\ ~response.called
          /\ call_get_available_slots(d, sd, failing)
    \/ return_get_available_slots
    \/ route_respond

SpecSlots == InitSlots /\ [][NextSlots]_vars

\* Calls of get_available_slots on such a day, one after the other, the loop
\* of each running iteration by iteration: an iteration that can be made is
\* made in the end
NextSlotLoop ==
    \/ \E d \in ProbeDates, sd \in LoopDurations :
          get_available_slots_call(d, sd)
    \/ get_available_slots_iteration
    \/ get_available_slots_return

SpecSlotLoop ==
    /\ InitSlots
    /\ [][NextSlotLoop]_vars
    /\ WF_vars(get_available_slots_iteration)

\* The turns of a session and its resets, overlapping freely
NextAgent ==
    \/ \E t \in Turns :
          /\ process_message(t)
          /\ submitted' = Append(submitted, t)
          /\ UNCHANGED <<turn_start, entities, failures>>
    \/ \E t \in Turns, reply \in IntentReplies, ok \in BOOLEAN :
          detect_intent_returns(t, reply, ok)
          /\ UNCHANGED <<turn_start, entities, submitted, failures>>
    \/ \E t \in Turns, reply \in EntityDicts :
          extract_entities_returns(t, reply, TRUE)
          /\ UNCHANGED <<turn_start, entities, submitted, failures>>
    \/ \E t \in Turns :
          extract_entities_returns(t, <<>>, FALSE)
          /\ UNCHANGED <<turn_start, entities, submitted, failures>>
    \/ \E t \in Turns :
          /\ extract_entities_malformed(t)
          /\ UNCHANGED <<turn_start, entities, submitted, failures>>
    \/ \E t \in Turns, ok \in BOOLEAN :
          generate_response_returns(t, ok)
          /\ UNCHANGED <<turn_start, entities, submitted, failures>>
    \/ \E t \in Turns :
          /\ process_message_return(t)
          /\ submitted' = Remove(submitted, t)
          /\ UNCHANGED <<turn_start, entities, failures>>
    \/ reset_conversation /\ UNCHANGED <<turn_start, entities, submitted, failures>>

SpecAgent == Init /\ [][NextAgent]_vars

\* One turn at a time, resets between turns. The observers keep the state the
\* turn started from and the provider calls that failed in it, until it has
\* returned, and the entities it was given, while it awaits generate_response
NextAgentSeq ==
    \/ \E t \in Turns :
          /\ NoTurnUnderWay
          /\ process_message(t)
          /\ turn_start' = conversation_state
          /\ submitted' = Append(submitted, t)
          /\ UNCHANGED <<entities, failures>>
    \/ \E t \in Turns, reply \in IntentReplies, ok \in BOOLEAN :
          /\ detect_intent_returns(t, reply, ok)
          /\ failures' = IF ok THEN failures
                         ELSE failures \cup {"detect_intent"}
          /\ UNCHANGED <<turn_start, entities, submitted>>
    \/ \E t \in Turns, reply \in EntityDicts :
          /\ extract_entities_returns(t, reply, TRUE)
          /\ entities' = extract_entities(reply, TRUE)
          /\ UNCHANGED <<turn_start, submitted, failures>>
    \/ \E t \in Turns :
          /\ extract_entities_returns(t, <<>>, FALSE)
          /\ entities' = extract_entities(<<>>, FALSE)
          /\ failures' = failures \cup {"extract_entities"}
          /\ UNCHANGED <<turn_start, submitted>>
    \/ \E t \in Turns :
          /\ extract_entities_malformed(t)
          /\ failures' = failures \cup {"extract_entities"}
          /\ UNCHANGED <<turn_start, entities, submitted>>
    \/ \E t \in Turns, ok \in BOOLEAN :
          /\ generate_response_returns(t, ok)
          /\ entities' = NoEntities
          /\ failures' = IF ok THEN failures
                         ELSE failures \cup {"generate_response"}
          /\ UNCHANGED <<turn_start, submitted>>
    \/ \E t \in Turns :
          /\ process_message_return(t)
          /\ turn_start' = NoSnapshot
          /\ submitted' = Remove(submitted, t)
          /\ failures' = {}
          /\ UNCHANGED entities
    \/ /\ NoTurnUnderWay
       /\ reset_conversation
       /\ UNCHANGED <<turn_start, entities, submitted, failures>>

SpecAgentSeq == Init /\ [][NextAgentSeq]_vars

\* One turn at a time, the extraction answering with any of the entities of
\* its prompt
NextAgentKeys ==
    \/ NextAgentSeq
    \/ \E t \in Turns, reply \in OptionalEntityDicts :
          /\ extract_entities_returns(t, reply, TRUE)
          /\ entities' = extract_entities(reply, TRUE)
          /\ UNCHANGED <<turn_start, submitted, failures>>

SpecAgentKeys == Init /\ [][NextAgentKeys]_vars

\* One turn at a time, with resets also while the turn is suspended
NextAgentReset ==
    \/ NextAgentSeq
    \/ /\ ~NoTurnUnderWay
       /\ reset_conversation
       /\ UNCHANGED <<turn_start, entities, submitted, failures>>

SpecAgentReset == Init /\ [][NextAgentReset]_vars

\* One turn at a time, in a session of any language
InitLanguages ==
    /\ InitStore
    /\ InitSessions
    /\ language \in Languages
    /\ conversation_state = NewConversation
    /\ turns = [t \in Turns |-> IdleTurn]
    /\ turn_start = NoSnapshot
    /\ entities = NoEntities
    /\ submitted = <<>>
    /\ failures = {}

SpecLanguages == InitLanguages /\ [][NextAgentSeq]_vars

\* One turn at a time, each of which the caller may cut off at a provider call
NextAgentTimeout ==
    \/ NextAgentSeq
    \/ \E t \in Turns :
          /\ process_message_cancelled(t)
          /\ entities' = NoEntities
          /\ failures' = failures \cup {"timeout"}
          /\ UNCHANGED <<turn_start, submitted>>

SpecAgentTimeout == Init /\ [][NextAgentTimeout]_vars

\* Incoming calls and the turns and resets of their sessions' agents, one
\* turn of a session at a time, the sessions overlapping freely
NextSessions ==
    \/ \E ok \in BOOLEAN : handle_incoming_call(ok)
    \/ \E sid \in SessionIds, reply \in EntityDicts, ok \in BOOLEAN :
          agent_process_message(sid, reply, ok)
    \/ \E sid \in SessionIds, ok \in BOOLEAN :
          agent_generate_response_returns(sid, ok)
    \/ \E sid \in SessionIds : agent_reset_conversation(sid)

SpecSessions == Init /\ [][NextSessions]_vars

\* Incoming calls and end_call requests, overlapping freely
NextEndCall ==
    \/ \E ok \in BOOLEAN : handle_incoming_call(ok)
    \/ \E e \in EndCalls, sid \in KnownSessions \cup {UnknownSession} :
          end_call(e, sid)
    \/ \E e \in EndCalls, found \in BOOLEAN :
          get_conversation_by_session_returns(e, found)
    \/ \E e \in EndCalls, ok \in BOOLEAN : end_conversation_returns(e, ok)
    \/ \E e \in EndCalls : delete_room_returns(e)
    \/ \E e \in EndCalls : end_call_respond(e)

SpecEndCall == Init /\ [][NextEndCall]_vars

\* The whole system
Next == NextStore \/ NextAgent \/ NextSessions \/ NextEndCall \/ NextSlotLoop
Spec == Init /\ [][Next]_vars

-----------------------------------------------------------------------------
(* Claims about the store *)

IsActive(doc) == doc.status \in {"pending", "confirmed"}
SameSlot(r1, r2) ==
    /\ requests[r1].appointment_date = requests[r2].appointment_date
    /\ requests[r1].appointment_time = requests[r2].appointment_time

\* C1: two booking requests for the same date and time never both end with
\* an inserted appointment (201); one of them is refused.
C1_NeverBothInserted ==
    \A r1 \in Requests, r2 \in Requests :
        (/\ r1 # r2
         /\ requests[r1].pc = "done"
         /\ requests[r2].pc = "done"
         /\ SameSlot(r1, r2))
        => ~(requests[r1].status_code = 201 /\ requests[r2].status_code = 201)

\* The buffered window of an appointment or request at instant t
WindowStart(t) == t - APPOINTMENT_BUFFER_MINUTES
WindowEnd(t) == t + APPOINTMENT_SLOT_DURATION + APPOINTMENT_BUFFER_MINUTES
WindowsIntersect(a, b) ==
    WindowStart(a) < WindowEnd(b) /\ WindowStart(b) < WindowEnd(a)

AskedInstant ==
    availability.appointment_date * 1440
    + (availability.appointment_time[1] * 10
       + availability.appointment_time[2]) * 60
    + availability.appointment_time[3] * 10 + availability.appointment_time[4]

\* C2: check_availability answers false whenever the buffered window of the
\* asked instant intersects the buffered window of an active appointment.
C2_IntersectingWindowRejected ==
    availability.called =>
        \A i \in DOMAIN appointments :
            (IsActive(appointments[i])
             /\ WindowsIntersect(appointments[i].appointment_date, AskedInstant))
            => (~availability.result.raised /\ ~availability.result.value)

\* C3: with the store answering, check_availability(date, time) is true
\* exactly when no pending or confirmed appointment has its instant t with
\* instant - buffer <= t < instant + slot_duration + buffer.
C3_AvailableIffWindowEmpty ==
    (availability.called /\ availability.storage_ok) =>
        /\ ~availability.result.raised
        /\ availability.result.value =
              ~(\E i \in DOMAIN appointments :
                   /\ appointments[i].status \in {"pending", "confirmed"}
                   /\ AskedInstant - 15 <= appointments[i].appointment_date
                   /\ appointments[i].appointment_date < AskedInstant + 30 + 15)

\* C3 witness: one confirmed appointment at 10:00 is all the store holds and
\* check_availability(10:15) has answered false.
C3_Witness ==
    /\ Len(appointments) = 1
    /\ appointments[1] = [appointment_date |-> 1440 + 600, status |-> "confirmed"]
    /\ availability.called /\ availability.storage_ok
    /\ availability.appointment_date = 1
    /\ availability.appointment_time = <<1, 0, 1, 5>>
    /\ availability.result = [raised |-> FALSE, value |-> FALSE]

\* C4: with operations run one after the other, no active appointment starts
\* inside the buffered window of another active appointment.
C4_NoActiveInsideWindow ==
    \A i \in DOMAIN appointments, j \in DOMAIN appointments :
        (i # j /\ IsActive(appointments[i]) /\ IsActive(appointments[j]))
        => ~(/\ WindowStart(appointments[i].appointment_date)
                   <= appointments[j].appointment_date
             /\ appointments[j].appointment_date
                   < WindowEnd(appointments[i].appointment_date))

\* C5: a check_availability call whose store query failed ends with an error,
\* not with a boolean answer.
C5_FailureReported ==
    (availability.called /\ ~availability.storage_ok)
        => availability.result.raised

-----------------------------------------------------------------------------
(* Claims about the conversation state machine *)

Collected == conversation_state.collected_data
HasValue(collected, field) ==
    field \in DOMAIN collected /\ collected[field] >= 1
AllRequiredPresent(collected) ==
    /\ HasValue(collected, "patient_name")
    /\ HasValue(collected, "phone")
    /\ HasValue(collected, "appointment_date")
    /\ HasValue(collected, "appointment_time")

\* C6: a turn that ended in the failure path (intent "error") has left the
\* collected data and the stage as they were when it started.
C6_FailureLeavesStateUnchanged ==
    \A t \in Turns :
        (turns[t].pc = "done" /\ turns[t].result.intent = "error")
        => conversation_state = turn_start

\* C7: whenever the stage is confirming, the four required fields are present
\* and non-empty in the collected data.
C7_ConfirmingImpliesAllFields ==
    conversation_state.stage = "confirming" => AllRequiredPresent(Collected)

StageRank(stage) ==
    CASE stage = "greeting" -> 0
      [] stage = "collecting_info" -> 1
      [] stage = "confirming" -> 2
      [] stage = "closing" -> 3

\* C8: no step of a process_message turn moves the stage to an earlier stage;
\* a step that does is a reset_conversation, and it leaves greeting.
C8_StageNeverRegresses ==
    [][StageRank(conversation_state'.stage) < StageRank(conversation_state.stage)
       => (turns' = turns /\ conversation_state' = NewConversation)]_vars

\* C8 witness: a turn that computed a non-empty list of missing fields has
\* completed successfully while the stage was already confirming.
C8_Witness ==
    \E t \in Turns :
        /\ turns[t].pc = "done"
        /\ turns[t].result.intent # "error"
        /\ turns[t].missing_fields # <<>>
        /\ conversation_state.stage = "confirming"

\* C9: a merge whose extraction gives an empty, null or absent value for a
\* field keeps the non-empty value the field held, and no step of a turn
\* removes a field or empties it.
C9_MergeMonotonic ==
    [][\A f \in Fields :
          HasValue(Collected, f) =>
             /\ (\E t \in Turns :
                    /\ turns[t].pc = "extract_entities"
                    /\ turns'[t].pc = "generate_response"
                    /\ ~HasValue(entities', f))
                => (/\ f \in DOMAIN Collected'
                    /\ Collected'[f] = Collected[f])
             /\ turns' # turns => HasValue(Collected', f)]_vars

\* C9 witness: the turn awaiting generate_response was given an empty or null
\* value for a field the collected data holds.
C9_Witness ==
    \E t \in Turns, f \in Fields :
        /\ turns[t].pc = "generate_response"
        /\ f \in DOMAIN entities
        /\ entities[f] < 1
        /\ HasValue(Collected, f)

\* C10: a turn that completes successfully with the four required fields
\* non-empty in the collected data leaves the stage confirming and reports
\* stage confirming.
C10_CompleteDataMeansConfirming ==
    [][\A t \in Turns :
          (/\ turns[t].pc = "generate_response"
           /\ turns'[t].pc = "done"
           /\ turns'[t].result.intent # "error"
           /\ AllRequiredPresent(Collected'))
          => (/\ conversation_state'.stage = "confirming"
              /\ turns'[t].result.stage = "confirming")]_vars

\* Turn a was called before turn b and neither has returned
CalledBefore(a, b) ==
    \E i \in DOMAIN submitted, j \in DOMAIN submitted :
        i < j /\ submitted[i] = a /\ submitted[j] = b

\* C11: of two turns of a session, the one called later has its entities
\* merged and its stage transition applied only after the earlier one has
\* had both.
C11_TurnsAppliedInOrder ==
    [][\A a \in Turns, b \in Turns :
          (/\ CalledBefore(a, b)
           /\ turns[b].pc \in {"extract_entities", "generate_response"}
           /\ turns'[b].pc # turns[b].pc)
          => turns[a].pc = "done"]_vars

\* C12: whenever a turn is suspended, so that another turn or a caller of
\* get_collected_data / is_appointment_ready can run, the values it extracted
\* are not in the collected data with its stage transition still to come.
C12_MergeAndStageAtomic ==
    \A t \in Turns :
        (/\ turns[t].pc = "generate_response"
         /\ \E f \in DOMAIN entities : entities[f] >= 1)
        => update_stage(conversation_state.stage, turns[t].missing_fields)
               = conversation_state.stage

-----------------------------------------------------------------------------
(* Claims about get_available_slots *)

\* The instant of the i-th slot time get_available_slots returned
SlotInstant(i) ==
    slots.target_date * 1440
    + (slots.result.value[i][1] * 10 + slots.result.value[i][2]) * 60
    + slots.result.value[i][3] * 10 + slots.result.value[i][4]

SlotsIncreasing ==
    \A i \in DOMAIN slots.result.value, j \in DOMAIN slots.result.value :
        i < j => SlotInstant(i) < SlotInstant(j)

\* C13: the slot times get_available_slots returns are strictly increasing
\* and none lies inside the buffered window of an active appointment.
C13_SlotsOrderedAndOutsideWindows ==
    slots.called =>
        /\ SlotsIncreasing
        /\ \A i \in DOMAIN slots.result.value, k \in DOMAIN appointments :
              IsActive(appointments[k])
              => ~(/\ WindowStart(appointments[k].appointment_date)
                         <= SlotInstant(i)
                   /\ SlotInstant(i)
                         < WindowEnd(appointments[k].appointment_date))

\* C14: a get_available_slots call during which an availability query failed
\* ends with an error, not with a list.
C14_SlotsFailureReported ==
    (slots.called /\ slots.failing # {}) => slots.result.raised

\* The grid of a call: 09:00 + i * slot_duration, strictly before 20:00
SlotGrid ==
    LET step == IF slots.slot_duration = 0 - 1 THEN 30 ELSE slots.slot_duration
    IN  {m \in (9 * 60)..(20 * 60 - 1) : (m - 9 * 60) % step = 0}

\* The grid times check_availability answers true for
OpenGrid ==
    {m \in SlotGrid :
        LET s == <<(m \div 60) \div 10, (m \div 60) % 10,
                   (m % 60) \div 10, (m % 60) % 10>>
        IN  check_availability(appointments, slots.target_date, s,
                               s \notin slots.failing).value}

\* C15: get_available_slots returns, in order and without an error, exactly
\* the grid times check_availability is true for: the whole grid for a date
\* with no active appointment, nothing when every grid time is blocked.
C15_SlotsAreOpenGrid ==
    slots.called =>
        /\ ~slots.result.raised
        /\ SlotsIncreasing
        /\ {SlotInstant(i) - slots.target_date * 1440 :
               i \in DOMAIN slots.result.value} = OpenGrid
        /\ ((slots.failing = {}
             /\ \A k \in DOMAIN appointments :
                   ~IsActive(appointments[k])
                   \/ appointments[k].appointment_date \div 1440
                          # slots.target_date)
            => Len(slots.result.value) = Cardinality(SlotGrid))

\* C15 witness: a fully booked day, every query answering, was answered with
\* the empty sequence.
C15_Witness ==
    /\ slots.called
    /\ slots.failing = {}
    /\ slots.target_date = 1
    /\ Len(appointments) >= 1
    /\ slots.result = [raised |-> FALSE, value |-> <<>>]

-----------------------------------------------------------------------------
(* Claims about provider failures *)

\* C16: a turn in which intent detection, entity extraction or response
\* generation failed ends with a result whose intent is "error".
C16_ProviderFailureGivesError ==
    \A t \in Turns :
        (turns[t].pc = "done" /\ failures # {})
        => turns[t].result.intent = "error"

-----------------------------------------------------------------------------
(* Claims about the life of an appointment *)

\* C17: an appointment whose status is cancelled keeps that status through
\* every later confirm, cancel or update.
C17_CancelledIsTerminal ==
    [][\A id \in DOMAIN appointments :
          appointments[id].status = "cancelled"
          => appointments'[id].status = "cancelled"]_vars

\* The store with the appointments that are not pending or confirmed removed
ActiveOnly(store) == SelectSeq(store, LAMBDA doc : IsActive(doc))

\* C18: with the store answering, check_availability answers as it would on
\* the store without its cancelled and completed appointments.
C18_InactiveNeverBlocks ==
    (availability.called /\ availability.storage_ok) =>
        availability.result =
            check_availability(ActiveOnly(appointments),
                               availability.appointment_date,
                               availability.appointment_time, TRUE)

\* C18 witness: check_availability was asked about the date and time of a
\* cancelled appointment and answered true.
C18_Witness ==
    /\ availability.called /\ availability.storage_ok
    /\ availability.result = [raised |-> FALSE, value |-> TRUE]
    /\ \E i \in DOMAIN appointments :
          /\ appointments[i].status = "cancelled"
          /\ appointments[i].appointment_date = AskedInstant

\* C19: a route called with an id answers not found (404) exactly when the
\* store does not know the id, and then leaves the store as it was.
C19_NotFoundIffUnknownId ==
    [][(~response.called /\ response'.called) =>
          /\ (response'.status_code = 404)
                 <=> (response'.appointment_id \notin DOMAIN appointments)
          /\ (response'.status_code = 404) => (appointments' = appointments)]_vars

-----------------------------------------------------------------------------
(* Claims about the booking route *)

\* An active appointment starts in the conflict window of date d, time s
ConflictAt(d, s) ==
    LET instant == d * 1440 + (s[1] * 10 + s[2]) * 60 + s[3] * 10 + s[4]
    IN  \E i \in DOMAIN appointments :
           /\ IsActive(appointments[i])
           /\ instant - 15 <= appointments[i].appointment_date
           /\ appointments[i].appointment_date < instant + 30 + 15

\* C20: a booking request for a slot that conflicts with an active appointment
\* is answered 400 (time slot not available) with the stored appointments left
\* as they were, and never goes on to create_appointment.
C20_ConflictRejectedBeforeInsert ==
    [][\A r \in Requests :
          /\ (/\ requests[r].pc = "idle"
              /\ requests'[r].pc # "idle"
              /\ ConflictAt(requests'[r].appointment_date,
                            requests'[r].appointment_time))
             => (/\ requests'[r].pc = "done"
                 /\ requests'[r].status_code = 400
                 /\ appointments' = appointments)
          /\ (requests[r].pc = "done" /\ requests[r].status_code = 400)
             => requests'[r].pc \in {"done", "idle"}]_vars

\* C20 witness: a booking request has been answered 400 for a slot that
\* conflicts with an active appointment of the store.
C20_Witness ==
    \E r \in Requests :
        /\ requests[r].pc = "done"
        /\ requests[r].status_code = 400
        /\ ConflictAt(requests[r].appointment_date,
                      requests[r].appointment_time)

-----------------------------------------------------------------------------
(* Claims about the stages of a conversation *)

ResetCall ==
    /\ reset_conversation
    /\ UNCHANGED <<turn_start, entities, submitted, failures>>

\* C22: reset_conversation can be called in every state and always yields
\* stage greeting with empty collected data; the state it yields is itself
\* such a state, so a second call changes nothing.
C22_ResetTotalAndIdempotent ==
    /\ ENABLED ResetCall
    /\ ~ENABLED (ResetCall
                 /\ conversation_state' #
                        [stage |-> "greeting", collected_data |-> <<>>])
    /\ (conversation_state = [stage |-> "greeting", collected_data |-> <<>>])
           => ~ENABLED (ResetCall /\ conversation_state' # conversation_state)

\* C22 witness: reset_conversation has emptied the state of a session in
\* which a turn had merged a field and is suspended at generate_response.
C22_Witness ==
    /\ conversation_state = [stage |-> "greeting", collected_data |-> <<>>]
    /\ \E t \in Turns :
          /\ turns[t].pc = "generate_response"
          /\ Len(turns[t].missing_fields) < 4

-----------------------------------------------------------------------------
(* Claims about the sessions of the voice routes *)

\* The conversation_state of the agent registered for a session
AgentOf(session_id) == agents[active_conversations[session_id].agent]

\* C23: sessions are isolated: a process_message turn or a reset on the agent
\* of one registered session, and the registration of a further session,
\* leave the stage and the collected data of every other registered session
\* as they were, however the sessions' turns interleave.
C23_SessionsIsolated ==
    [][\A b \in DOMAIN active_conversations :
          acting' # b =>
              agents'[active_conversations[b].agent] = AgentOf(b)]_vars

\* Two sessions are registered, with different stages and different collected
\* data, and the agent of the first has just acted
C23_Witness ==
    /\ DOMAIN active_conversations = {1, 2}
    /\ acting = 1
    /\ AgentOf(1).stage = "collecting_info"
    /\ AgentOf(2).stage = "confirming"
    /\ AgentOf(1).collected_data # AgentOf(2).collected_data
    /\ session_turns[2].pc = "generate_response"

-----------------------------------------------------------------------------
(* Claims about turns that are cut off *)

\* C24: a turn cut off at a provider call by the response timeout ends with a
\* timeout error for the caller and with the stage and the collected data the
\* session had before the turn; the entities of the turn are not left merged.
C24_TimeoutFailsClosed ==
    \A t \in Turns :
        (turns[t].pc = "done" /\ "timeout" \in failures)
        => /\ turns[t].result.intent = "timeout"
           /\ conversation_state = turn_start

-----------------------------------------------------------------------------
(* Claims about the text of the failure path *)

\* C25: whatever the language of the session (en, ml, hi, ta or a code that
\* is not supported), the response text of a turn that ends on the failure
\* path of process_message is a generic error message and is not empty.
C25_ErrorTextNotEmpty ==
    \A t \in Turns :
        (turns[t].pc = "done" /\ turns[t].result.intent = "error")
        => turns[t].result.response # ""

-----------------------------------------------------------------------------
(* Claims about the keys of the collected data *)

\* C26: in every state of a session the keys of the collected data are among
\* the four required fields patient_name, phone, appointment_date and
\* appointment_time, whatever keys the entity extraction returns.
C26_CollectedKeysRequired ==
    DOMAIN conversation_state.collected_data \subseteq Fields

-----------------------------------------------------------------------------
(* Claims about the generation directive *)

\* The fields a directive names
FieldsNamed(directive) == {directive[i] : i \in DOMAIN directive} \cap Fields

\* What the directive has to be for a content of the collected data
DirectiveFor(collected, directive) ==
    IF AllRequiredPresent(collected)
    THEN /\ FieldsNamed(directive) = {}
         /\ directive[1] =
                "All information collected. Confirm the appointment details."
    ELSE \E i \in DOMAIN required_fields :
            /\ ~HasValue(collected, required_fields[i])
            /\ \A j \in 1..(i - 1) : HasValue(collected, required_fields[j])
            /\ FieldsNamed(directive) = {required_fields[i]}
            /\ directive[1] = "Ask for the next missing field"

\* Every content of the collected data: some of the four fields, each with
\* None, the empty string or a value
CollectedDicts == UNION {[K -> EntityValues] : K \in SUBSET Fields}

\* C27: for every content of the collected data after the merge the directive
\* names exactly one field, the first of patient_name, phone,
\* appointment_date, appointment_time that is absent or empty; when none of
\* the four is missing it is the directive to confirm and names no field.
C27_DirectiveNamesFirstMissing ==
    /\ \A t \in Turns :
          turns[t].pc = "generate_response"
          => DirectiveFor(Collected, turns[t].directive)
    /\ \A collected \in CollectedDicts :
          DirectiveFor(collected, generation_directive(missing_fields_of(collected)))

\* A turn awaits generate_response with the name and the phone collected and
\* the date and the time missing: the directive asks for the date
C27_Witness ==
    \E t \in Turns :
        /\ turns[t].pc = "generate_response"
        /\ DOMAIN Collected = {"patient_name", "phone"}
        /\ turns[t].directive = <<"Ask for the next missing field", "appointment_date">>

-----------------------------------------------------------------------------
(* Claims about a reset during a turn *)

\* The turn has merged a value and the collected data is empty all the same:
\* a reset has come while the turn awaits generate_response
ResetWhileSuspended(t) ==
    /\ turns[t].pc = "generate_response"
    /\ \E k \in DOMAIN entities : Truthy(entities[k])
    /\ conversation_state = NewConversation

\* C28: a reset issued while a turn of the session is suspended in response
\* generation takes full effect: when the turn completes, the stage is still
\* greeting and the collected data still empty.
C28_ResetSurvivesSuspendedTurn ==
    [][\A t \in Turns :
          (ResetWhileSuspended(t) /\ turns'[t].pc = "done")
          => conversation_state' = NewConversation]_vars

-----------------------------------------------------------------------------
(* Claims about the loop of get_available_slots *)

\* ceil(660 / d) for a positive d
ChecksFor(d) == (660 + d - 1) \div d

\* C29: get_available_slots terminates for every integer slot_duration, 0 and
\* the negative ones included, after finitely many availability checks; for
\* a positive slot_duration d it makes exactly ceil(660 / d) checks.
C29_SlotLoopTerminates ==
    /\ [](/\ slot_loop.pc = "done"
          /\ slot_loop.slot_duration > 0
          => slot_loop.checks = ChecksFor(slot_loop.slot_duration))
    /\ (slot_loop.pc = "loop" ~> slot_loop.pc = "done")

-----------------------------------------------------------------------------
(* Claims about end_call *)

\* C30: end_call can be repeated and raced: every end_call request none of
\* whose service calls raised is answered with success, once it has been
\* answered the session is not in active_conversations, and an end_call for
\* an id that is not active changes nothing and raises no error.
C30_EndCallRepeatable ==
    /\ \A e \in EndCalls :
          (end_calls[e].pc = "done" /\ ~end_calls[e].raised)
          => /\ end_calls[e].status_code = 200
             /\ end_calls[e].session_id \notin DOMAIN active_conversations
    /\ \A e \in EndCalls : \A sid \in (SessionIds \cup {UnknownSession})
                                         \ DOMAIN active_conversations :
          ~ENABLED (end_call(e, sid) /\ active_conversations' # active_conversations)

====
